---- MODULE Spec2Model ----
(***************************************************************************)
(* Model of the to-do list component in its two variants:                  *)
(*   - the local variant (src/src/App.vue), which mirrors the collection   *)
(*     to localStorage after every mutation;                               *)
(*   - the remote variant (src/unnamed/part_000), which keeps the          *)
(*     collection as a cache of a REST service and updates it              *)
(*     optimistically, rolling back on failure.                            *)
(* The collection is an array of object references: handlers that are      *)
(* suspended on a request keep a reference to the object they captured,    *)
(* also after the array has been replaced.                                 *)
(***************************************************************************)
EXTENDS Integers, Sequences, FiniteSets, TLC

\* ---------------------------------------------------------------- bounds
\* number of user intents dispatched in one run of the remote variant
MaxOps == 2
\* number of user intents dispatched in one run of the local variant
MaxLocalOps == 4
\* largest value of the millisecond clock read by Date.now()
MaxClock == 2
\* number of requests the user lets be in flight at once
MaxInFlight == 2
\* number of records of the collections the views are computed for
MaxViewLen == 4

VARIABLES
    mode,            \* "local" (src/src/App.vue) or "remote" (part_000)
    mounted,         \* the onMounted hook has run
    todos,           \* todos.value: array of object references
    heap,            \* the Todo objects, by reference
    newTodo,         \* newTodo.value
    editedTodoText,  \* editedTodoText.value
    loading,         \* loading.value (remote)
    error,           \* error.value (remote)
    reqs,            \* requests in flight, each with its suspended handler
    clears,          \* the Promise.all of every clearCompleted call
    server,          \* the records held by the remote service
    nextId,          \* the next id the remote service assigns
    storage,         \* localStorage slot 'todos' (local)
    clock,           \* Date.now()
    ops,             \* user intents still to be dispatched
    last,            \* the handler that ran last, with what it captured
    filter,          \* filter.value
    activeTab        \* activeTab.value

vars == <<mode, mounted, todos, heap, newTodo, editedTodoText, loading, error,
          reqs, clears, server, nextId, storage, clock, ops, last, filter,
          activeTab>>

\* ---------------------------------------------------------------- strings
\* A string is a sequence of characters; " " is the only whitespace here.
RECURSIVE TrimStart(_)
TrimStart(s) ==
    IF s = <<>> THEN s
    ELSE IF Head(s) = " " THEN TrimStart(Tail(s)) ELSE s

RECURSIVE TrimEnd(_)
TrimEnd(s) ==
    IF s = <<>> THEN s
    ELSE IF s[Len(s)] = " " THEN TrimEnd(SubSeq(s, 1, Len(s) - 1)) ELSE s

\* a guard that tests the raw value instead of the trimmed one
NoTrim(s) == s

\* String.prototype.trim
Trim(s) == TrimEnd(TrimStart(s))

\* what the user can type into the two text inputs
InputTexts == { <<" ">>, <<" ", "b">> }

\* ---------------------------------------------------------------- arrays
\* Array.prototype.filter(t => t.id !== id) on an array of references
FilterNotId(arr, h, id) == SelectSeq(arr, LAMBDA r : h[r].id # id)

\* Array.prototype.filter(t => t.completed)
FilterCompleted(arr, h) == SelectSeq(arr, LAMBDA r : h[r].completed)

\* Array.prototype.filter(t => !t.completed)
FilterActive(arr, h) == SelectSeq(arr, LAMBDA r : ~h[r].completed)

\* Array.prototype.findIndex(t => t.id === id), 0-based, -1 when absent
FindIndex(arr, h, id) ==
    IF \E i \in 1..Len(arr) : h[arr[i]].id = id
    THEN (CHOOSE i \in 1..Len(arr) :
              /\ h[arr[i]].id = id
              /\ \A j \in 1..(i - 1) : h[arr[j]].id # id) - 1
    ELSE -1

\* Array.prototype.splice(start, 0, item): start is clamped to the length
Splice(arr, start, item) ==
    LET at == IF start > Len(arr) THEN Len(arr) ELSE start
    IN  SubSeq(arr, 1, at) \o <<item>> \o SubSeq(arr, at + 1, Len(arr))

\* an insertion at the end of the array
Push(arr, item) == Append(arr, item)

\* Array.prototype.unshift(item)
Unshift(arr, item) == <<item>> \o arr

InList(ref) == \E i \in 1..Len(todos) : todos[i] = ref
Refs == { todos[i] : i \in 1..Len(todos) }
IdsInList == { heap[todos[i]].id : i \in 1..Len(todos) }

\* the record values of the collection, in order
Values(arr, h) == [i \in 1..Len(arr) |-> h[arr[i]]]

\* ------------------------------------------------------- local persistence
\* localStorage.getItem('todos') is null until the first setItem
NoStorage == [has |-> FALSE, val |-> <<>>]

\* what the slot can hold when the page is opened: nothing (first visit), or
\* the collection an earlier visit saved after one add
InitStorages ==
    { NoStorage,
      [has |-> TRUE,
       val |-> << [id |-> 0, title |-> <<"a">>, completed |-> FALSE,
                   createdAt |-> 0, isEditing |-> FALSE] >>] }

\* JSON.stringify(todos.value): the objects become values, every own
\* property is written, isEditing included
JSONstringify(arr, h) ==
    [i \in 1..Len(arr) |->
        [id |-> h[arr[i]].id, title |-> h[arr[i]].title,
         completed |-> h[arr[i]].completed, createdAt |-> h[arr[i]].createdAt,
         isEditing |-> h[arr[i]].isEditing]]

\* JSON.parse(savedTodos): one fresh object per stored value
JSONparse(val) ==
    [i \in 1..Len(val) |->
        [id |-> val[i].id, title |-> val[i].title,
         completed |-> val[i].completed, createdAt |-> val[i].createdAt,
         isEditing |-> val[i].isEditing]]

\* references of n objects allocated after the objects of h
Fresh(h, n) == [i \in 1..n |-> Len(h) + i]

\* last: the handler that ran last; id, ref: the record it is about;
\* ok: it took its success path; pre: the collection its call started from;
\* kind: the kind of response it received
Did(op, id, ref, ok, pre) ==
    [op |-> op, id |-> id, ref |-> ref, ok |-> ok, pre |-> pre, kind |-> "none"]
NoLast == Did("none", 0, 0, TRUE, <<>>)

remoteVars == <<loading, error, reqs, clears, server, nextId>>
viewVars == <<filter, activeTab>>

\* a saveTodos that does not write
saveTodosSkipped(arr, h) == storage

\* saveTodos
saveTodos(arr, h) == [has |-> TRUE, val |-> JSONstringify(arr, h)]

\* onMounted (local): read the slot once
LocalMounted ==
    /\ mode = "local" /\ ~mounted
    /\ mounted' = TRUE
    /\ IF storage.has
       THEN /\ heap' = heap \o JSONparse(storage.val)
            /\ todos' = Fresh(heap, Len(storage.val))
       ELSE UNCHANGED <<todos, heap>>
    /\ last' = Did("mounted", 0, 0, TRUE, <<>>)
    /\ UNCHANGED <<mode, newTodo, editedTodoText, storage, clock, ops>>
    /\ UNCHANGED remoteVars
    /\ UNCHANGED viewVars

\* addTodo (local); the user has typed s into the input
LocalAddTodo(s) ==
    /\ mode = "local" /\ mounted /\ ops > 0
    /\ ops' = ops - 1
    /\ IF Trim(s) # <<>>
       THEN /\ heap' = Append(heap, [id |-> clock, title |-> Trim(s),
                                     completed |-> FALSE, createdAt |-> clock,
                                     isEditing |-> FALSE])
            /\ todos' = Unshift(todos, Len(heap) + 1)
            /\ newTodo' = <<>>
            /\ storage' = saveTodos(todos', heap')
            /\ last' = Did("add", clock, Len(heap) + 1, TRUE, <<>>)
       ELSE /\ newTodo' = s
            /\ last' = Did("addEmpty", 0, 0, TRUE, <<>>)
            /\ UNCHANGED <<todos, heap, storage>>
    /\ UNCHANGED <<mode, mounted, editedTodoText, clock>>
    /\ UNCHANGED remoteVars
    /\ UNCHANGED viewVars

\* toggleTodo (local)
LocalToggleTodo(id) ==
    /\ mode = "local" /\ mounted /\ ops > 0
    /\ id \in IdsInList
    /\ ops' = ops - 1
    /\ LET todo == todos[FindIndex(todos, heap, id) + 1]
       IN  /\ heap' = [heap EXCEPT ![todo].completed = ~heap[todo].completed]
           /\ storage' = saveTodos(todos, heap')
           /\ last' = Did("toggle", id, todo, TRUE, <<>>)
    /\ UNCHANGED <<mode, mounted, todos, newTodo, editedTodoText, clock>>
    /\ UNCHANGED remoteVars
    /\ UNCHANGED viewVars

\* deleteTodo (local)
LocalDeleteTodo(id) ==
    /\ mode = "local" /\ mounted /\ ops > 0
    /\ id \in IdsInList
    /\ ops' = ops - 1
    /\ todos' = FilterNotId(todos, heap, id)
    /\ storage' = saveTodos(todos', heap)
    /\ last' = Did("delete", id, 0, TRUE, <<>>)
    /\ UNCHANGED <<mode, mounted, heap, newTodo, editedTodoText, clock>>
    /\ UNCHANGED remoteVars
    /\ UNCHANGED viewVars

\* clearCompleted (local); the button is rendered when some record is completed
LocalClearCompleted ==
    /\ mode = "local" /\ mounted /\ ops > 0
    /\ \E r \in Refs : heap[r].completed
    /\ ops' = ops - 1
    /\ todos' = FilterActive(todos, heap)
    /\ storage' = saveTodos(todos', heap)
    /\ last' = Did("clear", 0, 0, TRUE, <<>>)
    /\ UNCHANGED <<mode, mounted, heap, newTodo, editedTodoText, clock>>
    /\ UNCHANGED remoteVars
    /\ UNCHANGED viewVars

\* startEditing (local); offered on records that are not being edited
LocalStartEditing(todo) ==
    /\ mode = "local" /\ mounted /\ ops > 0
    /\ InList(todo) /\ ~heap[todo].isEditing
    /\ ops' = ops - 1
    /\ editedTodoText' = heap[todo].title
    /\ heap' = [heap EXCEPT ![todo].isEditing = TRUE]
    /\ last' = Did("startEditing", heap[todo].id, todo, TRUE, <<>>)
    /\ UNCHANGED <<mode, mounted, todos, newTodo, storage, clock>>
    /\ UNCHANGED remoteVars
    /\ UNCHANGED viewVars

\* saveEdit (local); the user has left s in the edit input
LocalSaveEdit(todo, s) ==
    /\ mode = "local" /\ mounted /\ ops > 0
    /\ InList(todo) /\ heap[todo].isEditing
    /\ ops' = ops - 1
    /\ editedTodoText' = s
    /\ IF Trim(s) # <<>>
       THEN /\ heap' = [heap EXCEPT ![todo].title = Trim(s),
                                    ![todo].isEditing = FALSE]
            /\ storage' = saveTodos(todos, heap')
            /\ last' = Did("saveEdit", heap[todo].id, todo, TRUE, <<>>)
       ELSE /\ last' = Did("saveEditEmpty", heap[todo].id, todo, TRUE, <<>>)
            /\ UNCHANGED <<heap, storage>>
    /\ UNCHANGED <<mode, mounted, todos, newTodo, clock>>
    /\ UNCHANGED remoteVars
    /\ UNCHANGED viewVars

\* cancelEdit (local)
LocalCancelEdit(todo) ==
    /\ mode = "local" /\ mounted /\ ops > 0
    /\ InList(todo) /\ heap[todo].isEditing
    /\ ops' = ops - 1
    /\ heap' = [heap EXCEPT ![todo].isEditing = FALSE]
    /\ last' = Did("cancelEdit", heap[todo].id, todo, TRUE, <<>>)
    /\ UNCHANGED <<mode, mounted, todos, newTodo, editedTodoText, storage, clock>>
    /\ UNCHANGED remoteVars
    /\ UNCHANGED viewVars

\* the page is closed and opened again: the component is constructed anew,
\* only the storage slot survives
LocalReload ==
    /\ mode = "local" /\ mounted /\ ops > 0
    /\ ops' = ops - 1
    /\ mounted' = FALSE
    /\ todos' = <<>> /\ heap' = <<>>
    /\ newTodo' = <<>> /\ editedTodoText' = <<>>
    /\ last' = Did("reload", 0, 0, TRUE, <<>>)
    /\ UNCHANGED <<mode, storage, clock>>
    /\ UNCHANGED remoteVars
    /\ filter' = "all" /\ activeTab' = "all"

\* a millisecond passes
Tick ==
    /\ mode = "local" /\ clock < MaxClock
    /\ clock' = clock + 1
    /\ UNCHANGED <<mode, mounted, todos, heap, newTodo, editedTodoText,
                   storage, ops, last>>
    /\ UNCHANGED remoteVars
    /\ UNCHANGED viewVars

\* ------------------------------------------------------- remote service
\* A record as the service holds and returns it. A field the JSON object
\* does not have is marked by hasTitle / hasText = FALSE; completed is the
\* JSON value "true", "false" or "undefined" (absent).
Raw(id, hasTitle, title, hasText, text, completed) ==
    [id |-> id, hasTitle |-> hasTitle, title |-> title, hasText |-> hasText,
     text |-> text, completed |-> completed, createdAt |-> 100 + id]

\* what the service can hold when the page is opened: current records, a
\* record in the legacy shape (text instead of title) and a record with
\* neither field
InitServers ==
    { << Raw(1, TRUE, <<"a">>, FALSE, <<>>, "false"),
         Raw(2, FALSE, <<>>, TRUE, <<"c">>, "true") >>,
      << Raw(1, FALSE, <<>>, FALSE, <<>>, "undefined") >> }

RECURSIVE MaxIdOf(_)
MaxIdOf(items) ==
    IF items = <<>> THEN 0
    ELSE LET m == MaxIdOf(Tail(items))
         IN  IF Head(items).id > m THEN Head(items).id ELSE m

ServerHas(id) == \E i \in 1..Len(server) : server[i].id = id

\* JSON.stringify({title, completed}) of a request; keys are the properties
\* the object literal has
NoBody == [keys |-> {}, title |-> <<>>, completed |-> FALSE]
PostBody(title) == [keys |-> {"title"}, title |-> title, completed |-> FALSE]
PutBody(title, completed) ==
    [keys |-> {"title", "completed"}, title |-> title, completed |-> completed]

\* kinds of response: the transport failed; a failing status; a success
\* status with a JSON body; a success status with no body or a body that
\* is not declared as JSON
\* items: the record or records of a JSON body
NoResp == [kind |-> "none", items |-> <<>>]
NetErr == [kind |-> "neterr", items |-> <<>>]
HttpErr == [kind |-> "httperr", items |-> <<>>]
OkJson(items) == [kind |-> "json", items |-> items]
OkNoJson == [kind |-> "nojson", items |-> <<>>]

\* A headers object: a function from header names to values.
NoHeaders == [k \in {} |-> ""]
DefaultHeaders == [k \in {"Content-Type"} |-> "application/json"]

\* { ...a, ...b }: the properties of a, then those of b, which replace the
\* properties of a that have the same name
Spread(a, b) ==
    [k \in DOMAIN a \cup DOMAIN b |-> IF k \in DOMAIN b THEN b[k] ELSE a[k]]

\* The options argument of apiRequest: keys are the properties the object
\* has (the body is kept apart, in the request).
RequestInit(keys, method, headers) ==
    [keys |-> keys, method |-> method, headers |-> headers]

\* the options the handlers pass to apiRequest
OptionsOf(op) ==
    IF op = "add" THEN RequestInit({"method", "body"}, "POST", NoHeaders)
    ELSE IF op \in {"toggle", "save"}
    THEN RequestInit({"method", "body"}, "PUT", NoHeaders)
    ELSE IF op \in {"delete", "clear"}
    THEN RequestInit({"method"}, "DELETE", NoHeaders)
    ELSE RequestInit({}, "", NoHeaders)

\* The second argument of fetch as apiRequest builds it:
\* { headers: { 'Content-Type': 'application/json', ...options.headers },
\*   ...options }
FetchInit(options) ==
    LET merged == Spread(DefaultHeaders,
                         IF "headers" \in options.keys THEN options.headers
                         ELSE NoHeaders)
        first == [keys |-> {"headers"}, method |-> "", headers |-> merged]
    IN  [keys |-> first.keys \cup options.keys,
         method |-> IF "method" \in options.keys THEN options.method
                    ELSE first.method,
         headers |-> IF "headers" \in options.keys THEN options.headers
                     ELSE first.headers]

\* a request in flight together with what its suspended handler captured;
\* options: what the handler passed to apiRequest; headers: the headers of
\* the request that was issued (testConnection calls fetch without options)
Req(op, id, body, ref, originalCompleted, originalTitle, todoIndex, batch, pre) ==
    [op |-> op, id |-> id, body |-> body, ref |-> ref,
     originalCompleted |-> originalCompleted, originalTitle |-> originalTitle,
     todoIndex |-> todoIndex, batch |-> batch, pre |-> pre, resp |-> NoResp,
     options |-> OptionsOf(op),
     headers |-> IF op = "test" THEN NoHeaders
                 ELSE FetchInit(OptionsOf(op)).headers]

FetchReq(batch) == Req("fetch", 0, NoBody, 0, FALSE, <<>>, 0, batch, <<>>)

RemoveAt(seq, i) == SubSeq(seq, 1, i - 1) \o SubSeq(seq, i + 1, Len(seq))

\* the service answers request i; any request can also fail without effect.
\* A toggle is stored and answered with the completed value the service
\* decides on (c), which need not be the one requested.
ServerHandle(i) ==
    /\ mode = "remote"
    /\ i \in 1..Len(reqs)
    /\ reqs[i].resp.kind = "none"
    /\ LET r == reqs[i]
           Answer(resp) == reqs' = [reqs EXCEPT ![i].resp = resp]
       IN
       \/ /\ Answer(NetErr) /\ UNCHANGED <<server, nextId>>
       \/ /\ Answer(HttpErr) /\ UNCHANGED <<server, nextId>>
       \/ /\ r.op = "test"
          /\ Answer(OkJson(<<>>))
          /\ UNCHANGED <<server, nextId>>
       \/ /\ r.op = "fetch"
          /\ Answer(OkJson(server))
          /\ UNCHANGED <<server, nextId>>
       \/ /\ r.op = "add"
          /\ LET item == Raw(nextId, TRUE, r.body.title, FALSE, <<>>, "false")
             IN  /\ server' = Append(server, item)
                 /\ nextId' = nextId + 1
                 /\ Answer(OkJson(<<item>>))
       \/ /\ r.op \in {"toggle", "save"}
          /\ ServerHas(r.id)
          /\ \E c \in IF r.op = "toggle" THEN BOOLEAN ELSE {r.body.completed} :
             LET k == CHOOSE k \in 1..Len(server) : server[k].id = r.id
                 item == [server[k] EXCEPT
                            !.hasTitle = TRUE, !.title = r.body.title,
                            !.completed = IF c THEN "true" ELSE "false"]
             IN  /\ server' = [server EXCEPT ![k] = item]
                 /\ Answer(OkJson(<<item>>))
          /\ UNCHANGED nextId
       \/ /\ r.op \in {"delete", "clear"}
          /\ server' = SelectSeq(server, LAMBDA it : it.id # r.id)
          /\ \/ Answer(OkJson(<<>>))
             \/ Answer(OkNoJson)
          /\ UNCHANGED nextId
    /\ UNCHANGED <<mode, mounted, todos, heap, newTodo, editedTodoText,
                   loading, error, clears, storage, clock, ops, last>>
    /\ UNCHANGED viewVars

\* ------------------------------------------------------- HTTP client wrapper
\* apiRequest: the outcome of the call for a response. threw = the call
\* rejects; error = the message it stores in error.value before rethrowing.
\* A transport failure is a TypeError (browsers whose message does not
\* contain 'fetch' store err.message instead: non-empty in both cases).
\* apiRequest without the write to error.value in its catch block
apiRequestQuiet(resp) ==
    [threw |-> resp.kind # "json", error |-> "", data |-> resp]

apiRequest(resp) ==
    IF resp.kind = "neterr"
    THEN [threw |-> TRUE, error |-> "Cannot connect to server", data |-> resp]
    ELSE IF resp.kind = "httperr"
    THEN [threw |-> TRUE, error |-> "HTTP error", data |-> resp]
    ELSE IF resp.kind = "json"
    THEN [threw |-> FALSE, error |-> "", data |-> resp]
    ELSE [threw |-> TRUE, error |-> "Expected JSON response", data |-> resp]

\* Boolean(todo.completed) and the truthiness of a JSON value
Boolean(v) == v = "true"

\* todo.title || todo.text || ''
NormalizedTitle(item) ==
    IF item.hasTitle /\ item.title # <<>> THEN item.title
    ELSE IF item.hasText /\ item.text # <<>> THEN item.text
    ELSE <<>>

\* the object fetchTodos builds from a raw item
Normalize(item) ==
    [id |-> item.id, title |-> NormalizedTitle(item),
     completed |-> Boolean(item.completed), createdAt |-> item.createdAt,
     isEditing |-> FALSE]

\* the object addTodo builds from the response of the creation request
NewTodoFrom(item) ==
    [id |-> item.id, title |-> item.title,
     completed |-> Boolean(item.completed), createdAt |-> item.createdAt,
     isEditing |-> FALSE]

\* ------------------------------------------------------- remote controller
localVars == <<storage, clock>>

\* the body of fetchTodos up to its await: loading, error and the request
StartFetch(rq, batch) ==
    /\ loading' = TRUE
    /\ error' = ""
    /\ reqs' = Append(rq, FetchReq(batch))

\* onMounted (remote): testConnection() up to its await
RemoteMounted ==
    /\ mode = "remote" /\ ~mounted
    /\ mounted' = TRUE
    /\ loading' = TRUE
    /\ error' = ""
    /\ reqs' = Append(reqs, Req("test", 0, NoBody, 0, FALSE, <<>>, 0, 0, <<>>))
    /\ last' = Did("mounted", 0, 0, TRUE, <<>>)
    /\ UNCHANGED <<mode, todos, heap, newTodo, editedTodoText, clears, server,
                   nextId, ops>>
    /\ UNCHANGED localVars
    /\ UNCHANGED viewVars

\* the rest of testConnection and of onMounted: any HTTP status counts as
\* connected, and fetchTodos() then starts in the same turn
DeliverTest(i) ==
    /\ mode = "remote"
    /\ i \in 1..Len(reqs)
    /\ reqs[i].op = "test" /\ reqs[i].resp.kind # "none"
    /\ IF reqs[i].resp.kind = "neterr"
       THEN /\ error' = "Cannot connect to backend server"
            /\ loading' = FALSE
            /\ reqs' = RemoveAt(reqs, i)
            /\ last' = Did("testDone", 0, 0, FALSE, <<>>)
       ELSE /\ StartFetch(RemoveAt(reqs, i), 0)
            /\ last' = Did("testDone", 0, 0, TRUE, <<>>)
    /\ UNCHANGED <<mode, mounted, todos, heap, newTodo, editedTodoText, clears,
                   server, nextId, ops>>
    /\ UNCHANGED localVars
    /\ UNCHANGED viewVars

\* retryConnection: the Retry button of the error banner
RetryConnection ==
    /\ mode = "remote" /\ mounted /\ ops > 0
    /\ Len(reqs) < MaxInFlight
    /\ error # ""
    /\ ops' = ops - 1
    /\ StartFetch(reqs, 0)
    /\ last' = Did("retry", 0, 0, TRUE, <<>>)
    /\ UNCHANGED <<mode, mounted, todos, heap, newTodo, editedTodoText, clears,
                   server, nextId>>
    /\ UNCHANGED localVars
    /\ UNCHANGED viewVars

\* the Dismiss button of the error banner: error = ''
DismissError ==
    /\ mode = "remote" /\ mounted /\ ops > 0
    /\ error # ""
    /\ ops' = ops - 1
    /\ error' = ""
    /\ last' = Did("dismiss", 0, 0, TRUE, <<>>)
    /\ UNCHANGED <<mode, mounted, todos, heap, newTodo, editedTodoText, loading,
                   reqs, clears, server, nextId>>
    /\ UNCHANGED localVars
    /\ UNCHANGED viewVars

\* the parsed body of a GET /todos response: the array itself, or an
\* object that holds the array under the key todos
JsonBody(items, wrapped) ==
    [isArray |-> ~wrapped,
     elems |-> IF wrapped THEN <<>> ELSE items,
     todos |-> IF wrapped THEN items ELSE <<>>]

\* a fetchTodos that only understands the bare list
TodoArrayBareOnly(data) == data.elems

\* Array.isArray(data) ? data : (data.todos || [])
TodoArray(data) == IF data.isArray THEN data.elems ELSE data.todos

\* the rest of fetchTodos
DeliverFetch(i) ==
    /\ mode = "remote"
    /\ i \in 1..Len(reqs)
    /\ reqs[i].op = "fetch" /\ reqs[i].resp.kind # "none"
    /\ \E wrapped \in BOOLEAN :
       LET r == apiRequest(reqs[i].resp)
           items == TodoArray(JsonBody(r.data.items, wrapped))
       IN  IF r.threw
           THEN /\ error' = r.error
                /\ last' = Did("fetchDone", reqs[i].batch, 0, FALSE, todos)
                /\ UNCHANGED <<todos, heap>>
           ELSE /\ heap' = heap \o [k \in 1..Len(items) |-> Normalize(items[k])]
                /\ todos' = Fresh(heap, Len(items))
                /\ last' = Did("fetchDone", reqs[i].batch, 0, TRUE, todos)
                /\ UNCHANGED error
    /\ loading' = FALSE
    /\ reqs' = RemoveAt(reqs, i)
    /\ UNCHANGED <<mode, mounted, newTodo, editedTodoText, clears, server,
                   nextId, ops>>
    /\ UNCHANGED localVars
    /\ UNCHANGED viewVars

\* addTodo up to its await; the input and the button are disabled while
\* loading, and the user has typed s
AddTodo(s) ==
    /\ mode = "remote" /\ mounted /\ ops > 0
    /\ Len(reqs) < MaxInFlight
    /\ ~loading
    /\ ops' = ops - 1
    /\ newTodo' = s
    /\ IF Trim(s) = <<>>
       THEN /\ last' = Did("addEmpty", 0, 0, TRUE, <<>>)
            /\ UNCHANGED <<loading, error, reqs>>
       ELSE /\ loading' = TRUE
            /\ error' = ""
            /\ reqs' = Append(reqs, Req("add", 0, PostBody(Trim(s)), 0, FALSE,
                                        <<>>, 0, 0, <<>>))
            /\ last' = Did("add", 0, 0, TRUE, <<>>)
    /\ UNCHANGED <<mode, mounted, todos, heap, editedTodoText, clears, server,
                   nextId>>
    /\ UNCHANGED localVars
    /\ UNCHANGED viewVars

\* an addTodo that empties the input in its finally block
NewTodoCleared(r, text) == <<>>

\* the input once the POST request has settled: newTodo.value = '' is the
\* last statement of the try block
NewTodoSettled(r, text) == IF r.threw THEN text ELSE <<>>

\* the rest of addTodo
DeliverAdd(i) ==
    /\ mode = "remote"
    /\ i \in 1..Len(reqs)
    /\ reqs[i].op = "add" /\ reqs[i].resp.kind # "none"
    /\ LET r == apiRequest(reqs[i].resp)
       IN  /\ newTodo' = NewTodoSettled(r, newTodo)
           /\ IF r.threw
              THEN /\ error' = r.error
                   /\ last' = Did("addDone", 0, 0, FALSE, todos)
                   /\ UNCHANGED <<todos, heap>>
              ELSE /\ heap' = Append(heap, NewTodoFrom(r.data.items[1]))
                   /\ todos' = Unshift(todos, Len(heap) + 1)
                   /\ last' = Did("addDone", r.data.items[1].id,
                                  Len(heap) + 1, TRUE, todos)
                   /\ UNCHANGED error
    /\ loading' = FALSE
    /\ reqs' = RemoveAt(reqs, i)
    /\ UNCHANGED <<mode, mounted, editedTodoText, clears, server, nextId, ops>>
    /\ UNCHANGED localVars
    /\ UNCHANGED viewVars

\* toggleTodo up to its await: the optimistic flip and the PUT request
ToggleTodo(id) ==
    /\ mode = "remote" /\ mounted /\ ops > 0
    /\ Len(reqs) < MaxInFlight
    /\ id \in IdsInList
    /\ ops' = ops - 1
    /\ LET todo == todos[FindIndex(todos, heap, id) + 1]
           originalCompleted == heap[todo].completed
       IN  /\ heap' = [heap EXCEPT ![todo].completed = ~heap[todo].completed]
           /\ reqs' = Append(reqs,
                  Req("toggle", id,
                      PutBody(heap[todo].title, ~heap[todo].completed),
                      todo, originalCompleted, <<>>, 0, 0, <<>>))
           /\ last' = Did("toggle", id, todo, TRUE, <<>>)
    /\ UNCHANGED <<mode, mounted, todos, newTodo, editedTodoText, loading,
                   error, clears, server, nextId>>
    /\ UNCHANGED localVars
    /\ UNCHANGED viewVars

\* a toggleTodo that writes nothing once its request has settled
ToggleSettledIgnored(r, req) == heap[req.ref].completed

\* a toggleTodo that keeps its optimistic value when the request succeeds
ToggleSettledOptimistic(r, req) ==
    IF r.threw THEN req.originalCompleted ELSE req.body.completed

\* toggleTodo whose catch block leaves the optimistic value in place
ToggleSettledNoRollback(r, req) ==
    IF r.threw THEN ~req.originalCompleted
    ELSE Boolean(r.data.items[1].completed)

\* what toggleTodo writes to todo.completed once the request has settled
ToggleSettled(r, req) ==
    IF r.threw THEN req.originalCompleted
    ELSE Boolean(r.data.items[1].completed)

\* the rest of toggleTodo
DeliverToggle(i) ==
    /\ mode = "remote"
    /\ i \in 1..Len(reqs)
    /\ reqs[i].op = "toggle" /\ reqs[i].resp.kind # "none"
    /\ LET r == apiRequest(reqs[i].resp)
       IN  /\ heap' = [heap EXCEPT
                          ![reqs[i].ref].completed = ToggleSettled(r, reqs[i])]
           /\ error' = IF r.threw THEN r.error ELSE error
           /\ last' = [Did("toggleDone", reqs[i].id, reqs[i].ref, ~r.threw,
                           <<>>) EXCEPT !.kind = reqs[i].resp.kind]
    /\ reqs' = RemoveAt(reqs, i)
    /\ UNCHANGED <<mode, mounted, todos, newTodo, editedTodoText, loading,
                   clears, server, nextId, ops>>
    /\ UNCHANGED localVars
    /\ UNCHANGED viewVars

\* deleteTodo up to its await: the optimistic removal and the DELETE request
DeleteTodo(id) ==
    /\ mode = "remote" /\ mounted /\ ops > 0
    /\ Len(reqs) < MaxInFlight
    /\ id \in IdsInList
    /\ ops' = ops - 1
    /\ LET todoIndex == FindIndex(todos, heap, id)
           todoBackup == todos[todoIndex + 1]
       IN  /\ todos' = FilterNotId(todos, heap, id)
           /\ reqs' = Append(reqs,
                  Req("delete", id, NoBody, todoBackup, FALSE, <<>>,
                      todoIndex, 0, todos))
           /\ last' = Did("delete", id, todoBackup, TRUE, <<>>)
    /\ UNCHANGED <<mode, mounted, heap, newTodo, editedTodoText, loading,
                   error, clears, server, nextId>>
    /\ UNCHANGED localVars
    /\ UNCHANGED viewVars

\* the collection once the DELETE request has settled:
\* todos.value.splice(todoIndex, 0, todoBackup) in the catch block
DeleteSettled(arr, r, req) ==
    IF r.threw THEN Splice(arr, req.todoIndex, req.ref) ELSE arr

\* the rest of deleteTodo
DeliverDelete(i) ==
    /\ mode = "remote"
    /\ i \in 1..Len(reqs)
    /\ reqs[i].op = "delete" /\ reqs[i].resp.kind # "none"
    /\ LET r == apiRequest(reqs[i].resp)
       IN  /\ todos' = DeleteSettled(todos, r, reqs[i])
           /\ error' = IF r.threw THEN r.error ELSE error
           /\ last' = [Did("deleteDone", reqs[i].id, reqs[i].ref, ~r.threw,
                           reqs[i].pre) EXCEPT !.kind = reqs[i].resp.kind]
    /\ reqs' = RemoveAt(reqs, i)
    /\ UNCHANGED <<mode, mounted, heap, newTodo, editedTodoText, loading,
                   clears, server, nextId, ops>>
    /\ UNCHANGED localVars
    /\ UNCHANGED viewVars

\* clearCompleted up to its await: one DELETE request per completed record,
\* all under one Promise.all; the button is rendered when some record is
\* completed
ClearCompleted ==
    /\ mode = "remote" /\ mounted /\ ops > 0
    /\ \E r \in Refs : heap[r].completed
    /\ Len(reqs) + Len(FilterCompleted(todos, heap)) <= MaxInFlight
    /\ ops' = ops - 1
    /\ LET completedTodos == FilterCompleted(todos, heap)
           batch == Len(clears) + 1
       IN  /\ reqs' = reqs \o
                  [k \in 1..Len(completedTodos) |->
                      Req("clear", heap[completedTodos[k]].id, NoBody,
                          completedTodos[k], FALSE, <<>>, 0, batch, <<>>)]
           /\ clears' = Append(clears, [remaining |-> Len(completedTodos),
                                        settled |-> FALSE,
                                        completedTodos |-> completedTodos])
           /\ last' = Did("clear", batch, 0, TRUE, <<>>)
    /\ UNCHANGED <<mode, mounted, todos, heap, newTodo, editedTodoText, loading,
                   error, server, nextId>>
    /\ UNCHANGED localVars
    /\ UNCHANGED viewVars

\* a Promise.all that ignores rejections
PromiseAllSwallow(b, threw) ==
    IF b.settled THEN "ignored"
    ELSE IF b.remaining = 1 THEN "resolved"
    ELSE "pending"

\* Promise.all: it rejects with the first promise that rejects and resolves
\* when the last one has resolved. The outcome for the promise of request
\* req: "rejected", "resolved", or "pending" / "ignored" when nothing happens
PromiseAll(b, threw) ==
    IF b.settled THEN "ignored"
    ELSE IF threw THEN "rejected"
    ELSE IF b.remaining = 1 THEN "resolved"
    ELSE "pending"

\* one DELETE request of a clearCompleted batch settles; when that settles
\* the Promise.all, the rest of clearCompleted runs in the same turn
DeliverClear(i) ==
    /\ mode = "remote"
    /\ i \in 1..Len(reqs)
    /\ reqs[i].op = "clear" /\ reqs[i].resp.kind # "none"
    /\ LET r == apiRequest(reqs[i].resp)
           batch == reqs[i].batch
           outcome == PromiseAll(clears[batch], r.threw)
       IN  /\ clears' = [clears EXCEPT
                  ![batch].remaining = IF outcome \in {"resolved", "pending"}
                                       THEN @ - 1 ELSE @,
                  ![batch].settled = outcome \in {"ignored", "rejected", "resolved"}]
           /\ IF outcome = "rejected"
              THEN /\ StartFetch(RemoveAt(reqs, i), batch)
                   /\ last' = Did("clearRejected", batch, 0, FALSE, todos)
                   /\ UNCHANGED todos
              ELSE /\ reqs' = RemoveAt(reqs, i)
                   /\ error' = IF r.threw THEN r.error ELSE error
                   /\ UNCHANGED loading
                   /\ IF outcome = "resolved"
                      THEN /\ todos' = FilterActive(todos, heap)
                           /\ last' = Did("clearResolved", batch, 0, TRUE, todos)
                      ELSE /\ last' = Did("clearOne", batch, 0, ~r.threw, <<>>)
                           /\ UNCHANGED todos
    /\ UNCHANGED <<mode, mounted, heap, newTodo, editedTodoText, server,
                   nextId, ops>>
    /\ UNCHANGED localVars
    /\ UNCHANGED viewVars

\* startEditing; offered on records that are not being edited
StartEditing(todo) ==
    /\ mode = "remote" /\ mounted /\ ops > 0
    /\ InList(todo) /\ ~heap[todo].isEditing
    /\ ops' = ops - 1
    /\ editedTodoText' = heap[todo].title
    /\ heap' = [heap EXCEPT ![todo].isEditing = TRUE]
    /\ last' = Did("startEditing", heap[todo].id, todo, TRUE, <<>>)
    /\ UNCHANGED <<mode, mounted, todos, newTodo, loading, error, reqs, clears,
                   server, nextId>>
    /\ UNCHANGED localVars
    /\ UNCHANGED viewVars

\* cancelEdit
CancelEdit(todo) ==
    /\ mode = "remote" /\ mounted /\ ops > 0
    /\ InList(todo) /\ heap[todo].isEditing
    /\ ops' = ops - 1
    /\ heap' = [heap EXCEPT ![todo].isEditing = FALSE]
    /\ editedTodoText' = <<>>
    /\ last' = Did("cancelEdit", heap[todo].id, todo, TRUE, <<>>)
    /\ UNCHANGED <<mode, mounted, todos, newTodo, loading, error, reqs, clears,
                   server, nextId>>
    /\ UNCHANGED localVars
    /\ UNCHANGED viewVars

\* saveEdit up to its await; the user has left s in the edit input. With
\* an empty input it is cancelEdit.
SaveEdit(todo, s) ==
    /\ mode = "remote" /\ mounted /\ ops > 0
    /\ Len(reqs) < MaxInFlight
    /\ InList(todo) /\ heap[todo].isEditing
    /\ ops' = ops - 1
    /\ IF Trim(s) = <<>>
       THEN /\ heap' = [heap EXCEPT ![todo].isEditing = FALSE]
            /\ editedTodoText' = <<>>
            /\ last' = Did("saveEditEmpty", heap[todo].id, todo, TRUE, <<>>)
            /\ UNCHANGED reqs
       ELSE /\ heap' = [heap EXCEPT ![todo].title = Trim(s),
                                    ![todo].isEditing = FALSE]
            /\ editedTodoText' = s
            /\ reqs' = Append(reqs,
                   Req("save", heap[todo].id,
                       PutBody(Trim(s), heap[todo].completed), todo, FALSE,
                       heap[todo].title, 0, 0, <<>>))
            /\ last' = Did("saveEdit", heap[todo].id, todo, TRUE, <<>>)
    /\ UNCHANGED <<mode, mounted, todos, newTodo, loading, error, clears,
                   server, nextId>>
    /\ UNCHANGED localVars
    /\ UNCHANGED viewVars

\* a saveEdit that reopens the edit input whatever the response is
SaveSettledReopens(obj, r, req) ==
    IF r.threw
    THEN [obj EXCEPT !.title = req.originalTitle, !.isEditing = TRUE]
    ELSE [obj EXCEPT !.title = r.data.items[1].title, !.isEditing = TRUE]

\* saveEdit whose catch block restores nothing
SaveSettledNoRollback(obj, r, req) ==
    IF r.threw THEN obj
    ELSE [obj EXCEPT !.title = r.data.items[1].title]

\* what saveEdit writes to the record once the request has settled
SaveSettled(obj, r, req) ==
    IF r.threw
    THEN [obj EXCEPT !.title = req.originalTitle, !.isEditing = TRUE]
    ELSE [obj EXCEPT !.title = r.data.items[1].title]

\* the rest of saveEdit
DeliverSave(i) ==
    /\ mode = "remote"
    /\ i \in 1..Len(reqs)
    /\ reqs[i].op = "save" /\ reqs[i].resp.kind # "none"
    /\ LET r == apiRequest(reqs[i].resp)
       IN  /\ heap' = [heap EXCEPT
                          ![reqs[i].ref] = SaveSettled(@, r, reqs[i])]
           /\ error' = IF r.threw THEN r.error ELSE error
           /\ last' = [Did("saveDone", reqs[i].id, reqs[i].ref, ~r.threw,
                           <<>>) EXCEPT !.kind = reqs[i].resp.kind]
    /\ reqs' = RemoveAt(reqs, i)
    /\ UNCHANGED <<mode, mounted, todos, newTodo, editedTodoText, loading,
                   clears, server, nextId, ops>>
    /\ UNCHANGED localVars
    /\ UNCHANGED viewVars

\* ------------------------------------------------------- apiRequest alone
\* header objects and options a caller of apiRequest can pass
HeaderMaps ==
    { NoHeaders,
      [k \in {"Authorization"} |-> "token"],
      [k \in {"Content-Type"} |-> "text/plain"],
      [k \in {"Authorization", "Content-Type"} |->
          IF k = "Authorization" THEN "token" ELSE "text/plain"] }

RequestInits ==
    { RequestInit({}, "", NoHeaders), RequestInit({"method"}, "POST", NoHeaders) }
    \cup { RequestInit({"headers"}, "", h) : h \in HeaderMaps }
    \cup { RequestInit({"method", "headers"}, "POST", h) : h \in HeaderMaps }

\* apiRequest(endpoint, options) up to its await, for any options
ApiCall(options) ==
    /\ mode = "remote" /\ mounted /\ ops > 0
    /\ Len(reqs) < MaxInFlight
    /\ ops' = ops - 1
    /\ reqs' = Append(reqs,
           [Req("call", 0, NoBody, 0, FALSE, <<>>, 0, 0, <<>>) EXCEPT
               !.options = options,
               !.headers = FetchInit(options).headers])
    /\ last' = Did("call", 0, 0, TRUE, <<>>)
    /\ UNCHANGED <<mode, mounted, todos, heap, newTodo, editedTodoText, loading,
                   error, clears, server, nextId>>
    /\ UNCHANGED localVars
    /\ UNCHANGED viewVars

\* the rest of apiRequest once fetch has settled with resp
SettleCall(i, resp) ==
    /\ mode = "remote"
    /\ i \in 1..Len(reqs)
    /\ reqs[i].op = "call"
    /\ LET r == apiRequest(resp)
       IN  /\ error' = IF r.threw THEN r.error ELSE error
           /\ last' = [Did("callDone", 0, 0, ~r.threw, <<>>) EXCEPT
                          !.kind = resp.kind]
    /\ reqs' = RemoveAt(reqs, i)
    /\ UNCHANGED <<mode, mounted, todos, heap, newTodo, editedTodoText, loading,
                   clears, server, nextId, ops>>
    /\ UNCHANGED localVars
    /\ UNCHANGED viewVars

\* ------------------------------------------------------- views
FilterTypes == {"all", "active", "completed"}

\* setFilter: a tab of the filter bar is clicked
SetFilter(type) ==
    /\ mounted /\ ops > 0
    /\ ops' = ops - 1
    /\ filter' = type
    /\ activeTab' = type
    /\ last' = Did("setFilter", 0, 0, TRUE, <<>>)
    /\ UNCHANGED <<mode, mounted, todos, heap, newTodo, editedTodoText>>
    /\ UNCHANGED remoteVars
    /\ UNCHANGED localVars

\* [...todos.value]: a new array with the same elements
SpreadCopy(arr) == [k \in 1..Len(arr) |-> arr[k]]

\* views whose completed tab shows every record
filteredTodosLoose(arr, h, f) ==
    IF f = "active" THEN FilterActive(arr, h) ELSE arr

\* views whose default case lists the records from the last to the first
filteredTodosReversed(arr, h, f) ==
    IF f = "active" THEN FilterActive(arr, h)
    ELSE IF f = "completed" THEN FilterCompleted(arr, h)
    ELSE [k \in 1..Len(arr) |-> arr[Len(arr) + 1 - k]]

\* filteredTodos: the computed list the template renders, for the filter f
filteredTodos(arr, h, f) ==
    LET items == SpreadCopy(arr)
    IN  IF f = "active" THEN FilterActive(items, h)
        ELSE IF f = "completed" THEN FilterCompleted(items, h)
        ELSE items

\* activeTodosCount
activeTodosCount(arr, h) == Len(FilterActive(arr, h))

\* ------------------------------------------------------- specification
\* the state after construction, with n user intents to come (one more in
\* the local variant, whose runs are short)
InitWith(n, nLocal) ==
    /\ \/ mode = "local" /\ server = <<>> /\ storage \in InitStorages
       \/ mode = "remote" /\ server \in InitServers /\ storage = NoStorage
    /\ mounted = FALSE
    /\ todos = <<>>
    /\ heap = <<>>
    /\ newTodo = <<>>
    /\ editedTodoText = <<>>
    /\ loading = FALSE
    /\ error = ""
    /\ reqs = <<>>
    /\ clears = <<>>
    /\ nextId = MaxIdOf(server) + 1
    /\ clock = 1
    /\ ops = IF mode = "local" THEN nLocal ELSE n
    /\ last = NoLast
    /\ filter = "all"
    /\ activeTab = "all"

Init == InitWith(MaxOps, MaxLocalOps)

\* the same program, followed for one more user intent
InitDeep == InitWith(MaxOps + 1, MaxLocalOps)

Typed == InputTexts \cup {editedTodoText}

Next ==
    \/ LocalMounted
    \/ \E s \in InputTexts \cup {newTodo} : LocalAddTodo(s)
    \/ \E id \in IdsInList : LocalToggleTodo(id)
    \/ \E id \in IdsInList : LocalDeleteTodo(id)
    \/ LocalClearCompleted
    \/ \E todo \in Refs : LocalStartEditing(todo)
    \/ \E todo \in Refs : \E s \in Typed : LocalSaveEdit(todo, s)
    \/ \E todo \in Refs : LocalCancelEdit(todo)
    \/ LocalReload
    \/ Tick
    \/ RemoteMounted
    \/ \E i \in 1..Len(reqs) : ServerHandle(i)
    \/ \E i \in 1..Len(reqs) : DeliverTest(i)
    \/ \E i \in 1..Len(reqs) : DeliverFetch(i)
    \/ \E i \in 1..Len(reqs) : DeliverAdd(i)
    \/ \E i \in 1..Len(reqs) : DeliverToggle(i)
    \/ \E i \in 1..Len(reqs) : DeliverDelete(i)
    \/ \E i \in 1..Len(reqs) : DeliverClear(i)
    \/ \E i \in 1..Len(reqs) : DeliverSave(i)
    \/ RetryConnection
    \/ DismissError
    \/ \E s \in InputTexts \cup {newTodo} : AddTodo(s)
    \/ \E id \in IdsInList : ToggleTodo(id)
    \/ \E id \in IdsInList : DeleteTodo(id)
    \/ ClearCompleted
    \/ \E todo \in Refs : StartEditing(todo)
    \/ \E todo \in Refs : \E s \in Typed : SaveEdit(todo, s)
    \/ \E todo \in Refs : CancelEdit(todo)
    \/ \E type \in FilterTypes : SetFilter(type)

Spec == Init /\ [][Next]_vars

\* the views of every collection of up to MaxViewLen records: the remote
\* variant right after a load of n records, the k-th with id k, each of
\* them completed or not, and the user then clicking through the tabs
InitView ==
    /\ mode = "remote"
    /\ mounted = TRUE
    /\ \E n \in 0..MaxViewLen :
       \E c \in [1..n -> {"true", "false"}] :
          /\ server = [k \in 1..n |-> Raw(k, TRUE, <<"a">>, FALSE, <<>>, c[k])]
          /\ heap = [k \in 1..n |-> Normalize(server[k])]
          /\ todos = Fresh(<<>>, n)
    /\ nextId = MaxIdOf(server) + 1
    /\ storage = NoStorage
    /\ newTodo = <<>>
    /\ editedTodoText = <<>>
    /\ loading = FALSE
    /\ error = ""
    /\ reqs = <<>>
    /\ clears = <<>>
    /\ clock = 1
    /\ ops = MaxOps
    /\ last = Did("fetchDone", 0, 0, TRUE, <<>>)
    /\ filter = "all"
    /\ activeTab = "all"

NextView == \E type \in FilterTypes : SetFilter(type)

SpecView == InitView /\ [][NextView]_vars

SpecDeep == InitDeep /\ [][Next]_vars

\* The remote variant with a service that answers every request with
\* success and stores what the request asks for, one request at a time in
\* the order in which the requests reach it.
ServerHandleOk(i) ==
    /\ ServerHandle(i)
    /\ reqs'[i].resp.kind = "json"
    /\ reqs[i].op = "toggle" =>
          reqs'[i].resp.items[1].completed =
              (IF reqs[i].body.completed THEN "true" ELSE "false")

InitOk == Init /\ mode = "remote"

NextOk ==
    \/ RemoteMounted
    \/ \E i \in 1..Len(reqs) : ServerHandleOk(i)
    \/ \E i \in 1..Len(reqs) : DeliverTest(i)
    \/ \E i \in 1..Len(reqs) : DeliverFetch(i)
    \/ \E i \in 1..Len(reqs) : DeliverAdd(i)
    \/ \E i \in 1..Len(reqs) : DeliverToggle(i)
    \/ \E i \in 1..Len(reqs) : DeliverDelete(i)
    \/ \E i \in 1..Len(reqs) : DeliverClear(i)
    \/ \E i \in 1..Len(reqs) : DeliverSave(i)
    \/ \E s \in InputTexts \cup {newTodo} : AddTodo(s)
    \/ \E id \in IdsInList : ToggleTodo(id)
    \/ \E id \in IdsInList : DeleteTodo(id)
    \/ ClearCompleted
    \/ \E todo \in Refs : StartEditing(todo)
    \/ \E todo \in Refs : \E s \in Typed : SaveEdit(todo, s)
    \/ \E todo \in Refs : CancelEdit(todo)

SpecOk == InitOk /\ [][NextOk]_vars

\* apiRequest called with every kind of options, in the remote variant
\* whose connectivity test has failed
InitHttp ==
    /\ mode = "remote"
    /\ mounted = TRUE
    /\ server \in InitServers
    /\ nextId = MaxIdOf(server) + 1
    /\ todos = <<>>
    /\ heap = <<>>
    /\ storage = NoStorage
    /\ newTodo = <<>>
    /\ editedTodoText = <<>>
    /\ loading = FALSE
    /\ error = "Cannot connect to backend server"
    /\ reqs = <<>>
    /\ clears = <<>>
    /\ clock = 1
    /\ ops = MaxOps
    /\ last = Did("testDone", 0, 0, FALSE, <<>>)
    /\ filter = "all"
    /\ activeTab = "all"

NextHttp ==
    \/ \E options \in RequestInits : ApiCall(options)
    \/ \E i \in 1..Len(reqs) :
          \E resp \in {NetErr, HttpErr, OkJson(<<>>), OkNoJson} :
             SettleCall(i, resp)

SpecHttp == InitHttp /\ [][NextHttp]_vars

\* ------------------------------------------------------- properties
Threw(i) == apiRequest(reqs[i].resp).threw
Pending == 1..Len(reqs)
LastReq(rq) == rq[Len(rq)]

\* C1: in every reachable state no two records of the in-memory collection
\* have the same id (stated here for the remote variant, whose service
\* never holds two records with the same id).
C1_UniqueIdsRemote ==
    mode = "remote" =>
        \A i, j \in 1..Len(todos) :
            i # j => heap[todos[i]].id # heap[todos[j]].id

\* C2: when the DELETE request of remove(id) fails and nothing else has
\* changed the collection since the optimistic removal, the collection after
\* the rollback is exactly the collection before the remove, in the same order.
C2_FailedRemoveRestores ==
    [][\A i \in Pending :
          (/\ DeliverDelete(i)
           /\ Threw(i)
           /\ todos = FilterNotId(reqs[i].pre, heap, reqs[i].id))
          => todos' = reqs[i].pre]_vars

\* C3: toggle(id) captures the value of completed from before the call and
\* flips it; when the PUT request fails, the record's completed is that
\* captured value again and no request (no re-fetch) is issued.
C3_FailedToggleReverts ==
    [][/\ \A id \in IdsInList :
            ToggleTodo(id) =>
                LET todo == todos[FindIndex(todos, heap, id) + 1]
                IN  /\ LastReq(reqs').ref = todo
                    /\ LastReq(reqs').originalCompleted = heap[todo].completed
                    /\ heap'[todo].completed = ~heap[todo].completed
       /\ \A i \in Pending :
            (DeliverToggle(i) /\ Threw(i)) =>
                /\ heap'[reqs[i].ref].completed = reqs[i].originalCompleted
                /\ reqs' = RemoveAt(reqs, i)
                /\ todos' = todos]_vars

C3_Witness ==
    /\ last.op = "toggleDone" /\ ~last.ok
    /\ InList(last.ref)
    /\ ~heap[last.ref].completed

\* C4: a DELETE request of remove(id) answered with a success status counts
\* as success whatever its body or content type is: the record is not
\* re-inserted and no error is recorded.
C4_DeleteStatusOnly ==
    [][\A i \in Pending :
          (DeliverDelete(i) /\ reqs[i].resp.kind \in {"json", "nojson"})
          => (todos' = todos /\ error' = error)]_vars

\* C5: when a deletion request of a clearCompleted batch fails (and the
\* batch has not settled before), the collection is left as it is and
\* load() is started; when that load succeeds the collection is the
\* normalized records of its response.
C5_ClearFailureReloads ==
    [][/\ \A i \in Pending :
            (DeliverClear(i) /\ Threw(i) /\ ~clears[reqs[i].batch].settled) =>
                /\ todos' = todos
                /\ heap' = heap
                /\ Len(reqs') = Len(reqs)
                /\ LastReq(reqs').op = "fetch"
                /\ LastReq(reqs').resp.kind = "none"
       /\ \A i \in Pending :
            (DeliverFetch(i) /\ ~Threw(i) /\ reqs[i].batch # 0) =>
                Values(todos', heap') =
                    [k \in 1..Len(reqs[i].resp.items) |->
                        Normalize(reqs[i].resp.items[k])]]_vars

C5_Witness ==
    /\ last.op = "fetchDone" /\ last.ok /\ last.id # 0
    /\ \E r \in Refs : heap[r].completed

\* C6: neither the local removal of completed records nor the
\* resynchronizing load() of clearCompleted starts while a deletion request
\* of its batch is still in flight.
C6_ClearWaitsForBatch ==
    last.op \in {"clearRejected", "clearResolved"} =>
        ~\E i \in Pending : reqs[i].op = "clear" /\ reqs[i].batch = last.id

\* C7: in every reachable state every record of the in-memory collection
\* has a title (text in the local variant) that is non-empty after trimming.
C7_TitlesNonEmpty ==
    \A r \in Refs : Trim(heap[r].title) # <<>>

\* C8: rename with a non-empty trimmed title applies the trimmed title,
\* clears the editing flag and sends the title in the same turn; when the
\* PUT request fails the title is the title from before the call again and
\* the editing flag is true; when it succeeds the title is the one of the
\* response and the handler leaves the editing flag as it is.
C8_RenameReconciles ==
    [][/\ \A todo \in Refs : \A s \in Typed :
            (SaveEdit(todo, s) /\ Trim(s) # <<>>) =>
                /\ heap'[todo].title = Trim(s)
                /\ ~heap'[todo].isEditing
                /\ LastReq(reqs').op = "save"
                /\ LastReq(reqs').resp.kind = "none"
                /\ LastReq(reqs').body.title = Trim(s)
                /\ LastReq(reqs').originalTitle = heap[todo].title
       /\ \A i \in Pending :
            DeliverSave(i) =>
                IF Threw(i)
                THEN /\ heap'[reqs[i].ref].title = reqs[i].originalTitle
                     /\ heap'[reqs[i].ref].isEditing
                ELSE /\ heap'[reqs[i].ref].title = reqs[i].resp.items[1].title
                     /\ heap'[reqs[i].ref].isEditing = heap[reqs[i].ref].isEditing]_vars

C8_Witness ==
    /\ last.op = "saveDone" /\ ~last.ok
    /\ InList(last.ref)
    /\ heap[last.ref].isEditing
    /\ heap[last.ref].title = <<"a">>

\* C9: isEditing is false on every record after every load: after the
\* startup read of the storage slot (local) and after a successful
\* fetchTodos (remote).
C9_NotEditingAfterLoad ==
    (last.op = "mounted" \/ (last.op = "fetchDone" /\ last.ok)) =>
        \A r \in Refs : ~heap[r].isEditing

\* C10 as stated: a failed toggle, rename or remove does not set the
\* user-visible error observable.
C10_MutationFailureSilent ==
    [][\A i \in Pending :
          ((DeliverToggle(i) \/ DeliverSave(i) \/ DeliverDelete(i)) /\ Threw(i))
          => error' = error]_vars

\* C10 as amended: a failed toggle, rename or remove is rolled back locally
\* and stores its message in the error observable, so the error banner is
\* visible after it.
C10_MutationFailureRecorded ==
    [][\A i \in Pending :
          ((DeliverToggle(i) \/ DeliverSave(i) \/ DeliverDelete(i)) /\ Threw(i))
          => error' # ""]_vars

C10_Witness ==
    /\ last.op \in {"toggleDone", "saveDone", "deleteDone"} /\ ~last.ok
    /\ error # ""

\* C11: load() never partially applies: when its request succeeds, the
\* collection is replaced by one record per item of the response, in the
\* order of the response, whichever shape the response has, with the id of
\* the item, the title taken from title, else from text, else empty, and
\* completed coerced to a boolean; when its request fails, the collection
\* and its records are exactly as they were.
C11_LoadAllOrNothing ==
    [][\A i \in Pending :
          DeliverFetch(i) =>
              IF Threw(i)
              THEN todos' = todos /\ heap' = heap
              ELSE LET items == reqs[i].resp.items
                   IN  /\ Len(todos') = Len(items)
                       /\ \A k \in 1..Len(items) :
                            LET t == heap'[todos'[k]]
                                it == items[k]
                            IN  /\ t.id = it.id
                                /\ t.title =
                                     IF it.hasTitle /\ it.title # <<>>
                                     THEN it.title
                                     ELSE IF it.hasText THEN it.text
                                     ELSE <<>>
                                /\ t.completed = (it.completed = "true")
                                /\ t.createdAt = it.createdAt]_vars

\* a load failed after an earlier load had normalized a legacy record
C11_Witness ==
    /\ last.op = "fetchDone" /\ ~last.ok
    /\ todos = last.pre
    /\ \E r \in Refs : heap[r].title = <<"c">> /\ heap[r].completed

\* C12: add with a non-empty trimmed title inserts nothing before the
\* creation request is answered, and when that request fails the collection
\* and its records are as they were and the input is not cleared: it holds
\* the text it held when the response arrived.
C12_FailedAddKeepsInput ==
    [][/\ \A s \in InputTexts \cup {newTodo} :
            (AddTodo(s) /\ Trim(s) # <<>>) =>
                /\ todos' = todos /\ heap' = heap
                /\ newTodo' = s
                /\ LastReq(reqs').op = "add"
       /\ \A i \in Pending :
            (DeliverAdd(i) /\ Threw(i)) =>
                /\ todos' = todos /\ heap' = heap
                /\ newTodo' = newTodo]_vars

\* a creation request has failed on a loaded collection
C12_Witness ==
    /\ last.op = "addDone" /\ ~last.ok
    /\ todos = last.pre /\ todos # <<>>
    /\ newTodo = <<" ", "b">>

\* C13: a successful add puts the new record at the front of the collection
\* and leaves the earlier records after it, in their previous order; in the
\* remote variant the record has the id, title, completed and createdAt of
\* the response and the input is cleared; in the local variant it has the
\* trimmed text and is not completed.
C13_AddPrepends ==
    [][/\ \A i \in Pending :
            (DeliverAdd(i) /\ ~Threw(i)) =>
                LET it == reqs[i].resp.items[1]
                    t == heap'[todos'[1]]
                IN  /\ Len(todos') = Len(todos) + 1
                    /\ Tail(todos') = todos
                    /\ Values(Tail(todos'), heap') = Values(todos, heap)
                    /\ t.id = it.id
                    /\ t.title = it.title
                    /\ t.completed = (it.completed = "true")
                    /\ t.createdAt = it.createdAt
                    /\ newTodo' = <<>>
       /\ \A s \in InputTexts \cup {newTodo} :
            (LocalAddTodo(s) /\ Trim(s) # <<>>) =>
                /\ Len(todos') = Len(todos) + 1
                /\ Tail(todos') = todos
                /\ Values(Tail(todos'), heap') = Values(todos, heap)
                /\ heap'[todos'[1]].title = Trim(s)
                /\ ~heap'[todos'[1]].completed]_vars

\* a creation request has succeeded on a loaded collection
C13_Witness ==
    /\ last.op = "addDone" /\ last.ok
    /\ Len(todos) = Len(last.pre) + 1 /\ Len(todos) > 1
    /\ todos[1] = last.ref
    /\ heap[last.ref].title = <<"b">>

\* C14: add with an empty or whitespace-only input changes nothing: the
\* collection and its records are as they were, no request is issued and
\* neither loading nor the error is touched (remote), and nothing is
\* written to the storage slot (local).
C14_EmptyAddNoOp ==
    [][\A s \in InputTexts \cup {newTodo} :
          (\A k \in 1..Len(s) : s[k] = " ") =>
              /\ AddTodo(s) =>
                    /\ todos' = todos /\ heap' = heap
                    /\ reqs' = reqs
                    /\ error' = error /\ loading' = loading
                    /\ server' = server
              /\ LocalAddTodo(s) =>
                    /\ todos' = todos /\ heap' = heap
                    /\ storage' = storage]_vars

\* a whitespace-only add on a loaded collection, with nothing in flight
C14_Witness ==
    /\ last.op = "addEmpty"
    /\ mode = "remote"
    /\ newTodo = <<" ">>
    /\ todos # <<>>
    /\ reqs = <<>> /\ error = ""

\* C15: rename with an empty or whitespace-only input behaves as a cancel
\* in both variants: the record's title is as it was, its editing flag is
\* false, the edit buffer is empty and no request is issued.
C15_EmptyRenameCancels ==
    [][\A todo \in Refs : \A s \in Typed :
          (\A k \in 1..Len(s) : s[k] = " ") =>
              /\ SaveEdit(todo, s) =>
                    /\ heap'[todo].title = heap[todo].title
                    /\ ~heap'[todo].isEditing
                    /\ editedTodoText' = <<>>
                    /\ reqs' = reqs
              /\ LocalSaveEdit(todo, s) =>
                    /\ heap'[todo].title = heap[todo].title
                    /\ ~heap'[todo].isEditing
                    /\ editedTodoText' = <<>>]_vars

\* C16: every toggle response overwrites the record's completed when it
\* arrives, wherever its request stands among the requests in flight and
\* whatever other toggles of the record are in flight or have been
\* answered: with the value of the response when it is a success, with the
\* value its call captured before flipping when it is a failure. So once
\* all responses have arrived the record holds what the response that
\* arrived last wrote.
C16_LastResponseWins ==
    [][\A i \in Pending :
          DeliverToggle(i) =>
              /\ heap'[reqs[i].ref].completed =
                    IF reqs[i].resp.kind = "json"
                    THEN reqs[i].resp.items[1].completed = "true"
                    ELSE reqs[i].originalCompleted
              /\ \A j \in Pending \ {i} :
                    reqs[j].op = "toggle" =>
                        \E k \in 1..Len(reqs') : reqs'[k] = reqs[j]]_vars

\* two toggles of one record were both answered with success and the
\* response that arrived last is not the one the service produced last: the
\* record is completed although the service holds it as not completed
C16_Witness ==
    /\ last.op = "toggleDone" /\ last.ok
    /\ reqs = <<>>
    /\ InList(last.ref)
    /\ heap[last.ref].completed
    /\ \E k \in 1..Len(server) :
          server[k].id = last.id /\ server[k].completed = "false"

\* C17: in the local variant the storage slot mirrors the collection: once
\* the page has read the slot, and after every add, toggle, delete,
\* clearCompleted and rename, the stored records are the in-memory records
\* (same ids, texts and completed values, in the same order); the slot is
\* empty only while nothing has ever been added.
C17_StorageMirrors ==
    (mode = "local" /\ mounted) =>
        IF storage.has
        THEN /\ Len(storage.val) = Len(todos)
             /\ \A k \in 1..Len(todos) :
                   /\ storage.val[k].id = heap[todos[k]].id
                   /\ storage.val[k].title = heap[todos[k]].title
                   /\ storage.val[k].completed = heap[todos[k]].completed
        ELSE todos = <<>>

\* a startup has restored two records, one of them completed, that an
\* earlier visit had saved
C17_Witness ==
    /\ mode = "local" /\ last.op = "mounted"
    /\ Len(todos) = 2
    /\ \E r \in Refs : heap[r].completed
    /\ heap[todos[1]].title = <<"b">>

\* C18: the views partition the collection: the active view holds exactly
\* the records that are not completed and the completed view exactly those
\* that are, each in the order of the collection; the two views have no
\* record in common and together hold every record; activeTodosCount is
\* the length of the active view.
C18_ViewsPartition ==
    LET active == filteredTodos(todos, heap, "active")
        completed == filteredTodos(todos, heap, "completed")
        Elems(v) == { v[k] : k \in 1..Len(v) }
        Pos(r) == CHOOSE k \in 1..Len(todos) : todos[k] = r
        InOrder(v) == \A j, k \in 1..Len(v) : j < k => Pos(v[j]) < Pos(v[k])
    IN  /\ Elems(active) = { r \in Refs : ~heap[r].completed }
        /\ Elems(completed) = { r \in Refs : heap[r].completed }
        /\ InOrder(active) /\ InOrder(completed)
        /\ Elems(active) \cap Elems(completed) = {}
        /\ Elems(active) \cup Elems(completed) = Refs
        /\ Len(active) + Len(completed) = Len(todos)
        /\ activeTodosCount(todos, heap) = Len(active)

\* the completed tab of a collection with records of both kinds
C18_Witness ==
    /\ filter = "completed" /\ last.op = "setFilter"
    /\ Len(todos) = MaxViewLen
    /\ Len(filteredTodos(todos, heap, filter)) = 2
    /\ activeTodosCount(todos, heap) = Len(todos) - 2

\* C19: whenever a tab is chosen and the view is computed again, the
\* collection and its records are as they were, and the view of the tab
\* all is the collection: the same records in the same order.
C19_AllViewIsCollection ==
    [][\A type \in FilterTypes :
          SetFilter(type) =>
              /\ todos' = todos /\ heap' = heap
              /\ filter' = "all" =>
                    LET view == filteredTodos(todos', heap', filter')
                    IN  /\ Len(view) = Len(todos)
                        /\ \A k \in 1..Len(todos) : view[k] = todos[k]]_vars

\* back on the tab all with records of both kinds
C19_Witness ==
    /\ filter = "all" /\ last.op = "setFilter" /\ ops = 0
    /\ Len(todos) > 1
    /\ heap[todos[1]].completed /\ ~heap[todos[2]].completed

\* C20: toggle(id) sends a PUT request for the record with that id whose
\* body holds the record's current title and the flipped completed value;
\* when the request succeeds, the record's completed is the value of the
\* response, whether or not it is the value that was sent.
C20_ToggleServerWins ==
    [][/\ \A id \in IdsInList :
            ToggleTodo(id) =>
                LET todo == todos[FindIndex(todos, heap, id) + 1]
                    sent == LastReq(reqs')
                IN  /\ Len(reqs') = Len(reqs) + 1
                    /\ sent.op = "toggle" /\ sent.id = id
                    /\ sent.resp.kind = "none"
                    /\ sent.body.keys = {"title", "completed"}
                    /\ sent.body.title = heap[todo].title
                    /\ sent.body.completed = ~heap[todo].completed
       /\ \A i \in Pending :
            (DeliverToggle(i) /\ reqs[i].resp.kind = "json") =>
                /\ heap'[reqs[i].ref].completed =
                      (reqs[i].resp.items[1].completed = "true")
                /\ heap'[reqs[i].ref].title = heap[reqs[i].ref].title
                /\ error' = error]_vars

\* the only intent so far was a toggle of record 1, which was not
\* completed; the request succeeded and the record is not completed: the
\* response did not hold the value that was sent
C20_Witness ==
    /\ last.op = "toggleDone" /\ last.ok /\ last.id = 1
    /\ ops = MaxOps - 1
    /\ reqs = <<>>
    /\ InList(last.ref)
    /\ ~heap[last.ref].completed

\* C21: the editing flag of a record object goes from false to true only
\* in startEditing or in the rollback of a failed rename, and from true to
\* false only in saveEdit or cancelEdit; every other step (toggle, add,
\* remove, clearCompleted, a response to a toggle or to a rename that
\* succeeded, a tab of the filter bar) leaves the flag of every existing
\* record as it is; startEditing and cancelEdit issue no request. A load
\* builds new record objects and is not a step of an existing one.
C21_EditingLifecycle ==
    [][/\ \A r \in 1..Len(heap) :
            r <= Len(heap') =>
                /\ (~heap[r].isEditing /\ heap'[r].isEditing) =>
                      \/ StartEditing(r)
                      \/ LocalStartEditing(r)
                      \/ \E i \in Pending :
                            DeliverSave(i) /\ Threw(i) /\ reqs[i].ref = r
                /\ (heap[r].isEditing /\ ~heap'[r].isEditing) =>
                      \/ \E s \in Typed : SaveEdit(r, s) \/ LocalSaveEdit(r, s)
                      \/ CancelEdit(r)
                      \/ LocalCancelEdit(r)
       /\ \A todo \in Refs :
            (StartEditing(todo) \/ CancelEdit(todo)) =>
                (reqs' = reqs /\ server' = server)]_vars

\* an edit session of the remote variant was opened and cancelled
C21_Witness ==
    /\ mode = "remote" /\ last.op = "cancelEdit"
    /\ InList(last.ref)
    /\ ~heap[last.ref].isEditing
    /\ editedTodoText = <<>>
    /\ reqs = <<>>

\* C22: every request that apiRequest issues has the header Content-Type
\* and every header its caller supplied, with the caller's value; the
\* content type is application/json unless the caller supplied one.
C22_JsonContentTypeAlways ==
    \A i \in Pending :
        reqs[i].op # "test" =>
            LET o == reqs[i].options
                supplied == IF "headers" \in o.keys THEN o.headers
                            ELSE NoHeaders
                sent == reqs[i].headers
            IN  /\ "Content-Type" \in DOMAIN sent
                /\ \A k \in DOMAIN supplied :
                      k \in DOMAIN sent /\ sent[k] = supplied[k]
                /\ "Content-Type" \notin DOMAIN supplied =>
                      sent["Content-Type"] = "application/json"

\* C23: when two removes of different records were in flight at the same
\* time and both DELETE requests have failed, in either order of arrival,
\* the collection after the second rollback is the collection from before
\* the first remove, in its order.
C23_OverlappingRemovesRestore ==
    [][\A i \in Pending :
          (/\ DeliverDelete(i) /\ Threw(i)
           /\ Len(reqs) = 1
           /\ last.op = "deleteDone" /\ ~last.ok
           /\ last.id # reqs[i].id)
          =>
          /\ reqs[i].pre = FilterNotId(last.pre, heap, last.id)
                => todos' = last.pre
          /\ last.pre = FilterNotId(reqs[i].pre, heap, reqs[i].id)
                => todos' = reqs[i].pre]_vars

\* C24: when the last deletion request of a clearCompleted batch succeeds
\* and none has failed, only records the batch issued a DELETE request for
\* leave the collection: every other record of the collection is still in
\* it afterwards.
C24_ClearRemovesOnlyBatch ==
    [][\A i \in Pending :
          (/\ DeliverClear(i) /\ ~Threw(i)
           /\ ~clears[reqs[i].batch].settled
           /\ clears[reqs[i].batch].remaining = 1)
          =>
          LET batch == clears[reqs[i].batch].completedTodos
              deleted == { heap[batch[k]].id : k \in 1..Len(batch) }
          IN  \A r \in Refs :
                  heap[r].id \notin deleted =>
                      \E k \in 1..Len(todos') : todos'[k] = r]_vars

\* C25: with a service that answers every request with success and applies
\* the requests in the order in which they reach it, in every state where
\* the page is loaded and no request is in flight the collection holds the
\* records of the service: the same ids, and for each id the title and the
\* completed value the service holds (as a load would read them).
C25_ConvergesWhenAllSucceed ==
    (mounted /\ reqs = <<>>) =>
        /\ IdsInList = { server[k].id : k \in 1..Len(server) }
        /\ \A r \in Refs : \A k \in 1..Len(server) :
              server[k].id = heap[r].id =>
                  /\ heap[r].title = NormalizedTitle(server[k])
                  /\ heap[r].completed = Boolean(server[k].completed)

\* C26: in the remote variant loading is true in every state where a
\* connectivity test, a load or an add request is in flight, and false in
\* every state where none of them is.
C26_LoadingTracksRequests ==
    mode = "remote" =>
        loading = (\E i \in Pending : reqs[i].op \in {"test", "fetch", "add"})

====
